---- MODULE Spec2Model ----
(***************************************************************************)
(* Model of the financial-statement ingestion pipeline of                  *)
(* scripts/financial_scraper_v2.py: the company loop of main, the chunked  *)
(* fetch client with its retry loop, the chunk merger, the wide-to-long    *)
(* transform and the staging-table upsert.                                 *)
(*                                                                         *)
(* Optional values (a pandas cell, a JSON field) are sequences of length   *)
(* at most one: Null is the missing value, Some(x) a present one.  Strings *)
(* the code takes apart (item codes, period labels) are sequences of       *)
(* one-character strings.                                                  *)
(***************************************************************************)
EXTENDS Integers, Sequences, FiniteSets, TLC

\* ------------------------------------------------------------------ bounds

\* Longest company list main is run on.
MaxCompanies == 2
\* Longest year range fetched: end_year < StartYear + MaxYears.
MaxYears == 2
\* Number of direct upsert_financial_data calls in the writer's own run.
MaxCalls == 3

\* -------------------------------------------------------- program constants

MAX_RETRIES == 3
ChunkSize == 4
StartYear == 2020
QUARTERS == <<3, 6, 9, 12>>

\* ------------------------------------------------------------ basic values

Null == <<>>
Some(x) == <<x>>
IsNull(o) == o = Null
Val(o) == o[1]

\* The two currency codes, as strings of characters.
TRY == <<"T", "R", "Y">>
USD == <<"U", "S", "D">>

Range(s) == {s[i] : i \in 1..Len(s)}

RECURSIVE Flatten(_)
Flatten(ss) ==
    IF ss = <<>> THEN <<>> ELSE Head(ss) \o Flatten(Tail(ss))

\* str(n) for n >= 0, as a sequence of characters.
DigitChar(d) == <<"0", "1", "2", "3", "4", "5", "6", "7", "8", "9">>[d + 1]

RECURSIVE Str(_)
Str(n) ==
    IF n < 10 THEN <<DigitChar(n)>>
    ELSE Str(n \div 10) \o <<DigitChar(n % 10)>>

\* int(s) for a sequence of decimal digits.
CharDigit(c) == CHOOSE d \in 0..9 : DigitChar(d) = c

RECURSIVE ParseInt(_)
ParseInt(s) ==
    IF Len(s) = 1 THEN CharDigit(s[1])
    ELSE 10 * ParseInt(SubSeq(s, 1, Len(s) - 1)) + CharDigit(s[Len(s)])

\* f"{year}/{month}": the label a value column is renamed to.
PeriodLabel(year, month) == Str(year) \o <<"/">> \o Str(month)

\* "/" in col
HasSlash(col) == "/" \in Range(col)

\* col.split("/"): the parts before and after the first "/".
SlashAt(col) == CHOOSE i \in 1..Len(col) : col[i] = "/" /\ \A j \in 1..(i - 1) : col[j] # "/"
SplitPeriod(col) ==
    <<SubSeq(col, 1, SlashAt(col) - 1), SubSeq(col, SlashAt(col) + 1, Len(col))>>

\* Mutant of ParsePeriod: the quarter is counted from 0.
ParsePeriodZeroBased(col) ==
    LET parts == SplitPeriod(col)
    IN [year    |-> ParseInt(parts[1]),
        quarter |-> (ParseInt(parts[2]) - 1) \div 3]

\* year = int(parts[0]); month = int(parts[1]); quarter = month // 3
ParsePeriod(col) ==
    LET parts == SplitPeriod(col)
    IN [year    |-> ParseInt(parts[1]),
        quarter |-> ParseInt(parts[2]) \div 3]

\* --------------------------------------------------------------- quarters

\* Mutant of _generate_quarters: the end year is left out, as range(start_year, end_year).
_generate_quarters_exclusive(start_year, end_year) ==
    Flatten([y \in 1..(IF end_year > start_year THEN end_year - start_year ELSE 0) |->
                [q \in 1..Len(QUARTERS) |-> <<start_year + y - 1, QUARTERS[q]>>]])

\* _generate_quarters: every (year, quarter-month) of the range, year-major.
_generate_quarters(start_year, end_year) ==
    Flatten([y \in 1..(IF end_year >= start_year THEN end_year - start_year + 1 ELSE 0) |->
                [q \in 1..Len(QUARTERS) |-> <<start_year + y - 1, QUARTERS[q]>>]])

\* all_quarters[chunk_start:chunk_start + 4], chunk_start counted from 0.
ChunkQuarters(all_quarters, chunk_start) ==
    SubSeq(all_quarters, chunk_start + 1,
           IF chunk_start + ChunkSize < Len(all_quarters)
           THEN chunk_start + ChunkSize ELSE Len(all_quarters))

\* ------------------------------------------------------------ wide tables

(* A wide table (a pandas DataFrame of the fetch client) is                *)
(*   [ids  : the item-identifying columns it has,                          *)
(*    cols : its other columns in order, each a period label,              *)
(*    rows : its rows in order, each [key : ids -> cell, cells : cols -> cell]]. *)
IdCols == {"itemCode", "itemDescTr", "itemDescEng"}

Code1A == <<"1", "A">>
Code3B == <<"3", "B">>

Item(code, tr, en, values) ==
    [itemCode |-> code, itemDescTr |-> tr, itemDescEng |-> en, values |-> values]

\* The "value" arrays the endpoint answers with in this model: one item with
\* two empty periods; two items, each absent from one period; one item without
\* an English description.
PayloadA == <<Item(Some(Code1A), Some("Varliklar"), Some("Assets"),
                   <<Some(10), Some(11), Null, Null>>)>>
PayloadB == <<Item(Some(Code1A), Some("Varliklar"), Some("Assets"),
                   <<Some(20), Null, Null, Null>>),
              Item(Some(Code3B), Some("Hasilat"), Some("Revenue"),
                   <<Null, Some(30), Null, Null>>)>>
PayloadN == <<Item(Some(Code1A), Some("Varliklar"), Null,
                   <<Some(40), Null, Null, Null>>)>>
\* PayloadC has PayloadA's item code under other descriptions; PayloadDup lists
\* one item code twice; PayloadX has an item without a code; in PayloadZ no
\* period has a value.
PayloadC == <<Item(Some(Code1A), Some("Donen Varliklar"), Some("Current Assets"),
                   <<Some(12), Null, Null, Null>>)>>
PayloadDup == <<Item(Some(Code3B), Some("Hasilat"), Some("Revenue"),
                     <<Some(30), Null, Null, Null>>),
                Item(Some(Code1A), Some("Varliklar"), Some("Assets"),
                     <<Some(10), Null, Null, Null>>),
                Item(Some(Code1A), Some("Varliklar (eski)"), Some("Assets (old)"),
                     <<Some(13), Null, Null, Null>>)>>
PayloadX == <<Item(Null, Some("Dipnot"), Some("Note"),
                   <<Some(50), Null, Null, Null>>)>>
PayloadZ == <<Item(Some(Code3B), Some("Hasilat"), Some("Revenue"),
                   <<Null, Null, Null, Null>>)>>
Payloads == {PayloadA, PayloadB, PayloadN, PayloadC, PayloadDup, PayloadX, PayloadZ}

\* The response bodies that carry no data: "ok" false, or "ok" with an empty "value".
BodyNotOk == [ok |-> FALSE, value |-> <<>>]
BodyEmpty == [ok |-> TRUE, value |-> <<>>]
NoDataBodies == {BodyNotOk, BodyEmpty}
DataBodies == {[ok |-> TRUE, value |-> p] : p \in Payloads}

Max(S) == CHOOSE m \in S : \A x \in S : x <= m
Min2(a, b) == IF a < b THEN a ELSE b

\* Mutant of FrameOfPayload: valueN gets the label of the N-th period from the end.
FrameOfPayloadReversed(payload, quarters) ==
    LET n == Min2(Max({Len(payload[i].values) : i \in 1..Len(payload)}), Len(quarters))
        cols == [k \in 1..n |-> PeriodLabel(quarters[n + 1 - k][1], quarters[n + 1 - k][2])]
    IN [ids  |-> IdCols,
        cols |-> cols,
        rows |-> [i \in 1..Len(payload) |->
                    [key   |-> [c \in IdCols |-> payload[i][c]],
                     cells |-> [c \in Range(cols) |->
                                  LET k == CHOOSE k \in 1..n : cols[k] = c
                                  IN IF k <= Len(payload[i].values)
                                     THEN payload[i].values[k] ELSE Null]]]]

\* pd.DataFrame(data["value"]) with value1..valueN renamed to the labels of the
\* chunk's quarters.  A valueN past the chunk's length would keep its name; the
\* endpoint sends at most as many values as periods were asked for.
FrameOfPayload(payload, quarters) ==
    LET n == Min2(Max({Len(payload[i].values) : i \in 1..Len(payload)}), Len(quarters))
        cols == [k \in 1..n |-> PeriodLabel(quarters[k][1], quarters[k][2])]
    IN [ids  |-> IdCols,
        cols |-> cols,
        rows |-> [i \in 1..Len(payload) |->
                    [key   |-> [c \in IdCols |-> payload[i][c]],
                     cells |-> [c \in Range(cols) |->
                                  LET k == CHOOSE k \in 1..n : cols[k] = c
                                  IN IF k <= Len(payload[i].values)
                                     THEN payload[i].values[k] ELSE Null]]]]

\* What one response body makes _fetch_chunk return: Null for None, else Some(frame).
ChunkFrame(body, quarters) ==
    IF ~body.ok THEN Null
    ELSE IF body.value = <<>> THEN Null
    ELSE Some(FrameOfPayload(body.value, quarters))

\* Mutant of OuterMerge: how="inner", only the rows paired by key are kept.
InnerMerge(L, R) ==
    LET cols == L.cols \o R.cols
        Wide(own, other) ==
            [c \in Range(cols) |-> IF c \in DOMAIN own THEN own[c] ELSE other[c]]
        Matches(l) == SelectSeq(R.rows, LAMBDA r : r.key = l.key)
    IN [ids  |-> L.ids,
        cols |-> cols,
        rows |-> Flatten([i \in 1..Len(L.rows) |->
                    LET l == L.rows[i]
                        m == Matches(l)
                    IN [j \in 1..Len(m) |->
                          [key |-> l.key, cells |-> Wide(l.cells, m[j].cells)]]])]

\* pd.merge(L, R, on=[the three id columns], how="outer").  Rows of equal key are
\* paired (null keys pair with null keys, as pandas does); an unpaired row gets
\* null cells for the other side's columns.  pandas orders the result by key;
\* here the left rows come first, then the unpaired right rows.
OuterMerge(L, R) ==
    LET cols == L.cols \o R.cols
        Wide(own, other) ==
            [c \in Range(cols) |->
                IF c \in DOMAIN own THEN own[c]
                ELSE IF c \in DOMAIN other THEN other[c] ELSE Null]
        Matches(l) == SelectSeq(R.rows, LAMBDA r : r.key = l.key)
        Unpaired(r) == \A i \in 1..Len(L.rows) : L.rows[i].key # r.key
        Empty == [c \in {} |-> Null]
        left == Flatten([i \in 1..Len(L.rows) |->
                    LET l == L.rows[i]
                        m == Matches(l)
                    IN IF m = <<>>
                       THEN <<[key |-> l.key, cells |-> Wide(l.cells, Empty)]>>
                       ELSE [j \in 1..Len(m) |->
                               [key |-> l.key, cells |-> Wide(l.cells, m[j].cells)]]])
        right == SelectSeq(R.rows, Unpaired)
    IN [ids  |-> L.ids,
        cols |-> cols,
        rows |-> left \o [j \in 1..Len(right) |->
                            [key |-> right[j].key, cells |-> Wide(right[j].cells, Empty)]]]

\* Mutant of DropNullColumns: nothing is dropped.
KeepColumns(T) == T

\* df.drop(columns=df.columns[df.isnull().all()]): every column, id columns
\* included, that is null in all rows goes.
DropNullColumns(T) ==
    LET keepId == {c \in T.ids : \E i \in 1..Len(T.rows) : ~IsNull(T.rows[i].key[c])}
        keep == SelectSeq(T.cols, LAMBDA c : \E i \in 1..Len(T.rows) : ~IsNull(T.rows[i].cells[c]))
    IN [ids  |-> keepId,
        cols |-> keep,
        rows |-> [i \in 1..Len(T.rows) |->
                    [key   |-> [c \in keepId |-> T.rows[i].key[c]],
                     cells |-> [c \in Range(keep) |-> T.rows[i].cells[c]]]]]

RECURSIVE MergeFrom(_, _)
MergeFrom(acc, rest) ==
    IF rest = <<>> THEN acc ELSE MergeFrom(OuterMerge(acc, Head(rest)), Tail(rest))

\* Mutant of _merge_chunks: without the shortcut for a single frame.
_merge_chunks_always(dataframes) ==
    DropNullColumns(MergeFrom(dataframes[1], Tail(dataframes)))

\* Mutant of _merge_chunks: only the first chunk's frame is returned.
_merge_first_only(dataframes) == dataframes[1]

\* _merge_chunks, for a non-empty list of frames.
_merge_chunks(dataframes) ==
    IF Len(dataframes) = 1 THEN dataframes[1]
    ELSE DropNullColumns(MergeFrom(dataframes[1], Tail(dataframes)))

\* --------------------------------------------------------- long-format rows

\* Mutant of _determine_statement_type: the mapping has no "A" entry.
_determine_by_digit(item_code) ==
    IF IsNull(item_code) \/ Val(item_code) = <<>> THEN "INCOME_STATEMENT"
    ELSE LET first_char == Val(item_code)[1]
         IN CASE first_char = "1" -> "BALANCE_SHEET_ASSETS"
              [] first_char = "2" -> "BALANCE_SHEET_LIABILITIES"
              [] first_char = "3" -> "INCOME_STATEMENT"
              [] first_char = "4" -> "CASH_FLOW"
              [] OTHER -> "INCOME_STATEMENT"


_determine_statement_type(item_code) ==
    IF IsNull(item_code) \/ Val(item_code) = <<>> THEN "INCOME_STATEMENT"
    ELSE LET first_char == Val(item_code)[1]
         IN CASE first_char = "1" -> "BALANCE_SHEET_ASSETS"
              [] first_char = "2" -> "BALANCE_SHEET_LIABILITIES"
              [] first_char = "3" -> "INCOME_STATEMENT"
              [] first_char = "4" -> "CASH_FLOW"
              [] first_char = "A" -> "BALANCE_SHEET_ASSETS"
              [] OTHER -> "INCOME_STATEMENT"

\* Mutant of transform_to_long_format: the rows with a null value are kept.
transform_keeps_nulls(df_wide, company_id, financial_group) ==
    LET quarter_cols == SelectSeq(df_wide.cols, HasSlash)
        Melted(col) ==
            [i \in 1..Len(df_wide.rows) |->
                LET r == df_wide.rows[i]
                    period == ParsePeriod(col)
                IN [companyId      |-> company_id,
                    year           |-> period.year,
                    quarter        |-> period.quarter,
                    itemCode       |-> r.key["itemCode"],
                    itemNameTR     |-> r.key["itemDescTr"],
                    itemNameEN     |-> r.key["itemDescEng"],
                    value          |-> r.cells[col],
                    statementType  |-> _determine_statement_type(r.key["itemCode"]),
                    financialGroup |-> financial_group,
                    currency       |-> TRY]]
    IN IF quarter_cols = <<>> THEN [raised |-> FALSE, rows |-> <<>>]
       ELSE IF df_wide.ids # IdCols THEN [raised |-> TRUE, rows |-> <<>>]
       ELSE [raised |-> FALSE,
             rows   |-> Flatten([k \in 1..Len(quarter_cols) |-> Melted(quarter_cols[k])])]

\* transform_to_long_format: [raised, rows].  melt raises KeyError when an id
\* column is missing; with no period column the result is an empty frame.
transform_to_long_format(df_wide, company_id, financial_group) ==
    LET quarter_cols == SelectSeq(df_wide.cols, HasSlash)
        Melted(col) ==
            [i \in 1..Len(df_wide.rows) |->
                LET r == df_wide.rows[i]
                    period == ParsePeriod(col)
                IN [companyId      |-> company_id,
                    year           |-> period.year,
                    quarter        |-> period.quarter,
                    itemCode       |-> r.key["itemCode"],
                    itemNameTR     |-> r.key["itemDescTr"],
                    itemNameEN     |-> r.key["itemDescEng"],
                    value          |-> r.cells[col],
                    statementType  |-> _determine_statement_type(r.key["itemCode"]),
                    financialGroup |-> financial_group,
                    currency       |-> TRY]]
    IN IF quarter_cols = <<>> THEN [raised |-> FALSE, rows |-> <<>>]
       ELSE IF df_wide.ids # IdCols THEN [raised |-> TRUE, rows |-> <<>>]
       ELSE [raised |-> FALSE,
             rows   |-> SelectSeq(Flatten([k \in 1..Len(quarter_cols) |-> Melted(quarter_cols[k])]),
                                  LAMBDA row : ~IsNull(row.value))]

\* ----------------------------------------------------------- durable store

\* The natural key of financial_statements: ON CONFLICT ("companyId", year, quarter, "itemCode").
Key(row) == <<row.companyId, row.year, row.quarter, row.itemCode>>

\* Mutant of UpsertRow: a plain INSERT, with no ON CONFLICT clause.
UpsertRowInsertOnly(st, r, now) ==
    st \cup {[companyId      |-> r.companyId,
              year           |-> r.year,
              quarter        |-> r.quarter,
              itemCode       |-> r.itemCode,
              itemNameTR     |-> r.itemNameTR,
              itemNameEN     |-> r.itemNameEN,
              value          |-> r.value,
              statementType  |-> r.statementType,
              financialGroup |-> r.financialGroup,
              currency       |-> r.currency,
              createdAt      |-> now,
              updatedAt      |-> now]}

\* Mutant of UpsertRow: DO UPDATE SET without "updatedAt" = NOW().
UpsertRowKeepsStamp(st, r, now) ==
    IF \E s \in st : Key(s) = Key(r)
    THEN {IF Key(s) = Key(r)
          THEN [s EXCEPT !.value = r.value,
                         !.itemNameTR = r.itemNameTR,
                         !.itemNameEN = r.itemNameEN,
                         !.statementType = r.statementType,
                         !.financialGroup = r.financialGroup]
          ELSE s : s \in st}
    ELSE UpsertRowInsertOnly(st, r, now)

\* One staged row taken by INSERT ... ON CONFLICT DO UPDATE at transaction time now.
UpsertRow(st, r, now) ==
    IF \E s \in st : Key(s) = Key(r)
    THEN {IF Key(s) = Key(r)
          THEN [s EXCEPT !.value = r.value,
                         !.itemNameTR = r.itemNameTR,
                         !.itemNameEN = r.itemNameEN,
                         !.statementType = r.statementType,
                         !.financialGroup = r.financialGroup,
                         !.updatedAt = now]
          ELSE s : s \in st}
    ELSE st \cup {[companyId      |-> r.companyId,
                   year           |-> r.year,
                   quarter        |-> r.quarter,
                   itemCode       |-> r.itemCode,
                   itemNameTR     |-> r.itemNameTR,
                   itemNameEN     |-> r.itemNameEN,
                   value          |-> r.value,
                   statementType  |-> r.statementType,
                   financialGroup |-> r.financialGroup,
                   currency       |-> r.currency,
                   createdAt      |-> now,
                   updatedAt      |-> now]}

\* The upsert statement over the staged rows, in order: [ok, store].  The store
\* refuses a statement that reaches one key twice ("ON CONFLICT DO UPDATE command
\* cannot affect row a second time"); store is then what the statement had
\* written when it failed.
RECURSIVE UpsertRows(_, _, _, _)
UpsertRows(st, touched, rows, now) ==
    IF rows = <<>> THEN [ok |-> TRUE, store |-> st]
    ELSE IF Key(Head(rows)) \in touched THEN [ok |-> FALSE, store |-> st]
    ELSE UpsertRows(UpsertRow(st, Head(rows), now),
                    touched \cup {Key(Head(rows))}, Tail(rows), now)

ExecUpsert(st, rows, now) == UpsertRows(st, {}, rows, now)

\* Mutant of AfterRollback: the statement's writes are committed as they are made.
KeepsWorking(committed, working) == working

\* Leaving "with self.engine.begin()" by an exception: the transaction is rolled back.
AfterRollback(committed, working) == committed

\* Mutant of IsEmptyFrame: no guard for the empty batch.
NeverEmpty(rows) == FALSE

\* df_long.empty
IsEmptyFrame(rows) == rows = <<>>

\* ----------------------------------------------------------- fetch helpers

\* The outcomes of one session.get + raise_for_status + json: a transport-level
\* failure (a RequestException), or a response body.
TransportError == [transport |-> TRUE, body |-> BodyNotOk]
Answer(body) == [transport |-> FALSE, body |-> body]
Outcomes == {TransportError} \cup {Answer(b) : b \in NoDataBodies \cup DataBodies}

\* In a run of main the endpoint holds one payload per company year; whether a
\* request gets it, gets a no-data body or fails is open.  For the second
\* company's first year the endpoint lists an item without any value.
PayloadOfYear(year) == IF (year - StartYear) % 2 = 0 THEN PayloadA ELSE PayloadB
PayloadOfCompany(symbol, year) ==
    IF symbol = "GARAN" /\ year = StartYear THEN PayloadZ ELSE PayloadOfYear(year)
MainOutcomes(symbol, quarters) ==
    {TransportError} \cup {Answer(b) : b \in NoDataBodies}
        \cup {Answer([ok |-> TRUE, value |-> PayloadOfCompany(symbol, quarters[1][1])])}

\* Mutant of Retryable: a body with "ok" false is raised as a request error.
RetryableOrNotOk(outcome) == outcome.transport \/ ~outcome.body.ok

\* except requests.exceptions.RequestException
Retryable(outcome) == outcome.transport

\* Mutant of MayRetry: the last attempt's exception is swallowed like the others.
AlwaysRetry(attempt) == TRUE

\* if attempt < self.MAX_RETRIES - 1
MayRetry(attempt) == attempt < MAX_RETRIES - 1

\* Mutant of DelayBefore: the randomized delay precedes every attempt.
DelayAlways(attempt) == <<"random_delay">>

\* if attempt == 0: time.sleep(random.uniform(*self.RATE_LIMIT_DELAY))
DelayBefore(attempt) == IF attempt = 0 THEN <<"random_delay">> ELSE <<>>

\* The exception fetch_financials raises when no chunk gave a frame.
NoDataError(symbol, group) == [kind |-> "no_financial_data", detail |-> <<symbol, group>>]
OtherError(kind) == [kind |-> kind, detail |-> <<>>]

\* Mutant of get_financial_group_for_ticker: the fallback is the banks' taxonomy.
get_financial_group_or_ufrs(mapping, ticker) ==
    IF ticker \in DOMAIN mapping THEN mapping[ticker] ELSE "UFRS"

\* get_financial_group_for_ticker
get_financial_group_for_ticker(mapping, ticker) ==
    IF ticker \in DOMAIN mapping THEN mapping[ticker] ELSE "XI_29"

\* ------------------------------------------------------------------ inputs

Symbols == <<"AKBNK", "GARAN", "THYAO", "TUPRS">>
\* The rows of the companies query, ordered by code, ids distinct.
CompanyRows(n) == [i \in 1..n |-> [id |-> i, symbol |-> Symbols[i]]]

EmptyMapping == [t \in {} |-> "XI_29"]
\* The mapping main loaded: the first company has an entry, the others none.
LoadedMapping == [t \in {"AKBNK"} |-> "UFRS"]
\* A mapping naming a taxonomy code the registry is not seeded with.
DynamicMapping == [t \in {"AKBNK", "GARAN"} |-> IF t = "AKBNK" THEN "UFRS" ELSE "SIGORTA"]

\* load_financial_group_mapping: the rows of company_financial_groups as a
\* mapping; the empty mapping when DATABASE_URL is not set or the query fails.
LoadOutcomes ==
    {[kind |-> "no_url", rows |-> EmptyMapping], [kind |-> "failed", rows |-> EmptyMapping]}
        \cup {[kind |-> "rows", rows |-> m] : m \in {EmptyMapping, LoadedMapping, DynamicMapping}}

load_financial_group_mapping(outcome) ==
    IF outcome.kind = "rows" THEN outcome.rows ELSE EmptyMapping

\* The financial_group_mapping argument of __init__: None, or a loaded mapping.
MappingArguments == {Null} \cup {Some(load_financial_group_mapping(o)) : o \in LoadOutcomes}

\* financial_group_mapping or {}
OrEmpty(argument) == IF IsNull(argument) THEN EmptyMapping ELSE Val(argument)

\* The tickers looked up and the taxonomy codes passed to fetch_financials by
\* a caller other than main: a seeded code, a code only a mapping names, and a
\* code nothing names.
Tickers == {"AKBNK", "GARAN", "THYAO"}
Codes == {"UFRS", "SIGORTA", "TFRS"}

\* ---------------------------------------------------- the taxonomy registry

FinancialGroup(code, name, description, applicable_to) ==
    [code |-> code, name |-> name, description |-> description,
     applicable_to |-> applicable_to]

\* IsYatirimFinancialAPI.FINANCIAL_GROUPS as the class body defines it.
SeededGroups ==
    [c \in {"XI_29", "XI_29K", "UFRS", "UFRS_K", "UFRS_A", "UFRS_B"} |->
        CASE c = "XI_29" ->
               FinancialGroup(c, "XI-29 Standard",
                              "Standard Turkish accounting for regular companies",
                              <<"Manufacturing", "Retail", "Technology", "etc.">>)
          [] c = "XI_29K" ->
               FinancialGroup(c, "XI-29/K Special Financial",
                              "Special accounting for financial institutions",
                              <<"Factoring", "Leasing", "Asset Management">>)
          [] c = "UFRS" ->
               FinancialGroup(c, "IFRS/UFRS",
                              "International Financial Reporting Standards",
                              <<"Banks", "Insurance", "Large caps">>)
          [] c = "UFRS_K" ->
               FinancialGroup(c, "IFRS/UFRS-K", "Alternative IFRS reporting",
                              <<"Special cases">>)
          [] c = "UFRS_A" ->
               FinancialGroup(c, "UFRS: DO&CO Finansallari",
                              "DO&CO specific IFRS reporting", <<"DO&CO companies">>)
          [] OTHER ->
               FinancialGroup(c, "UFRS: DO&CO K_Finansallari",
                              "DO&CO consolidated IFRS reporting",
                              <<"DO&CO consolidated companies">>)]

\* f"Dynamic: {group_code}"
DynamicName(code) == <<"Dynamic: ", code>>

\* Mutant of Register: the entry is written whether or not the code is there.
RegisterAlways(groups, code, entry) ==
    [c \in DOMAIN groups \cup {code} |-> IF c = code THEN entry ELSE groups[c]]

\* Mutant of GroupsAfterFetchEntry: an unknown code is used without being registered.
GroupsUntouched(groups, code, symbol) == groups

\* if code not in self.FINANCIAL_GROUPS: self.FINANCIAL_GROUPS[code] = entry
Register(groups, code, entry) ==
    IF code \in DOMAIN groups THEN groups
    ELSE [c \in DOMAIN groups \cup {code} |-> IF c = code THEN entry ELSE groups[c]]

\* __init__: every code among the mapping's values is registered if absent.
RECURSIVE RegisterAll(_, _)
RegisterAll(groups, codes) ==
    IF codes = {} THEN groups
    ELSE LET c == CHOOSE x \in codes : TRUE
         IN RegisterAll(
                Register(groups, c,
                         FinancialGroup(c, DynamicName(c), "Dynamically added from DB mapping",
                                        <<"Various companies">>)),
                codes \ {c})

GroupsAfterInit(groups, mapping) ==
    RegisterAll(groups, {mapping[t] : t \in DOMAIN mapping})

\* fetch_financials' entry: an unknown code is registered for the symbol.
GroupsAfterFetchEntry(groups, code, symbol) ==
    Register(groups, code,
             FinancialGroup(code, DynamicName(code), "Dynamically discovered during runtime",
                            <<symbol>>))

\* The parameters _fetch_chunk builds for a chunk (the cache buster left out).
RequestParams(symbol, exchange, group, quarters) ==
    [companyCode    |-> symbol,
     exchange       |-> exchange,
     financialGroup |-> group,
     year           |-> [k \in 1..Len(quarters) |-> Str(quarters[k][1])],
     period         |-> [k \in 1..Len(quarters) |-> Str(quarters[k][2])]]

\* Batches handed to upsert_financial_data called on its own: the long rows of
\* one year's frame.
BatchOf(payload, group) ==
    transform_to_long_format(
        FrameOfPayload(payload, ChunkQuarters(_generate_quarters(StartYear, StartYear), 0)),
        1, group).rows

Batches == {<<>>, BatchOf(PayloadA, "XI_29"), BatchOf(PayloadB, "XI_29"),
            BatchOf(PayloadC, "UFRS"), BatchOf(PayloadDup, "XI_29")}

\* ---------------------------------------------------------- static helpers

\* Two letters of the Turkish alphabet, each one character of a string.
CapitalDottedI == "I-dotted"
SmallDotlessI == "i-dotless"

\* str.upper(), character by character: the dotless i becomes I, as i does.
LowerCase == <<"a", "b", "c", "d", "e", "f", "g", "h", "i", "j", "k", "l", "m", "n", "o",
               "p", "q", "r", "s", "t", "u", "v", "w", "x", "y", "z", SmallDotlessI>>
UpperCase == <<"A", "B", "C", "D", "E", "F", "G", "H", "I", "J", "K", "L", "M", "N", "O",
               "P", "Q", "R", "S", "T", "U", "V", "W", "X", "Y", "Z", "I">>
UpperChar(c) ==
    IF \E i \in 1..Len(LowerCase) : LowerCase[i] = c
    THEN UpperCase[CHOOSE i \in 1..Len(LowerCase) : LowerCase[i] = c]
    ELSE c
Upper(s) == [i \in 1..Len(s) |-> UpperChar(s[i])]

\* str.strip(): the blanks at both ends are removed.
RECURSIVE Strip(_)
Strip(s) ==
    IF s = <<>> THEN s
    ELSE IF Head(s) = " " THEN Strip(Tail(s))
    ELSE IF s[Len(s)] = " " THEN Strip(SubSeq(s, 1, Len(s) - 1))
    ELSE s

\* sub in s
Contains(sub, s) ==
    \E i \in 0..(Len(s) - Len(sub)) : SubSeq(s, i + 1, i + Len(sub)) = sub

XI_29K_COMPANIES ==
    {<<"C", "R", "D", "F", "A">>, <<"G", "A", "R", "F", "A">>, <<"L", "I", "D", "F", "A">>, <<"U", "L", "U", "F", "A">>,
     <<"I", "S", "F", "I", "N">>, <<"Q", "N", "B", "F", "K">>, <<"S", "E", "K", "F", "K">>, <<"V", "A", "K", "F", "N">>,
     <<"B", "R", "K", "V", "Y">>, <<"G", "L", "C", "V", "Y">>, <<"S", "M", "R", "V", "A">>, <<"D", "O", "C", "O">>,
     <<"M", "A", "R", "M", "R">>, <<"I", "S", "K", "U", "R">>, <<"K", "T", "L", "E", "V">>}

BANK_CODES ==
    {<<"A", "K", "B", "N", "K">>, <<"A", "L", "B", "R", "K">>, <<"G", "A", "R", "A", "N">>, <<"H", "A", "L", "K", "B">>,
     <<"I", "C", "B", "C", "T">>, <<"I", "S", "A", "T", "R">>, <<"I", "S", "B", "T", "R">>, <<"I", "S", "C", "T", "R">>,
     <<"K", "L", "N", "M", "A">>, <<"Q", "N", "B", "T", "R">>, <<"S", "K", "B", "N", "K">>, <<"T", "S", "K", "B">>,
     <<"V", "A", "K", "B", "N">>, <<"Y", "K", "B", "N", "K">>}

UFRS_SECTORS ==
    {<<"B", "A", "N", "K", "A", "C", "I", "L", "I", "K">>,
     <<"S", "I", "G", "O", "R", "T", "A">>,
     <<"S", CapitalDottedI, "G", "O", "R", "T", "A">>}

\* Mutant of determine_financial_group: the sector is looked at before the two lists.
determine_by_sector_first(company_code, main_sector) ==
    LET company_code_upper == Upper(company_code)
    IN IF /\ ~IsNull(main_sector) /\ Val(main_sector) # <<>>
          /\ \E sector \in UFRS_SECTORS : Contains(sector, Strip(Upper(Val(main_sector))))
       THEN "UFRS"
       ELSE IF company_code_upper \in XI_29K_COMPANIES THEN "XI_29K"
       ELSE IF company_code_upper \in BANK_CODES THEN "UFRS"
       ELSE "XI_29"

\* CompanyFinancialGroupMapper.determine_financial_group
determine_financial_group(company_code, main_sector) ==
    LET company_code_upper == Upper(company_code)
    IN IF company_code_upper \in XI_29K_COMPANIES THEN "XI_29K"
       ELSE IF company_code_upper \in BANK_CODES THEN "UFRS"
       ELSE IF /\ ~IsNull(main_sector) /\ Val(main_sector) # <<>>
               /\ \E sector \in UFRS_SECTORS : Contains(sector, Strip(Upper(Val(main_sector))))
            THEN "UFRS"
       ELSE "XI_29"

\* IsYatirimFinancialAPI.__init__(exchange=...): the exchange the client keeps,
\* Null when the constructor raises ValueError.
ExchangeArguments ==
    {TRY, USD, <<"t", "r", "y">>, <<"u", "s", "d">>, <<"U", "s", "d">>, <<"E", "U", "R">>, <<>>}
ConstructExchange(argument) ==
    IF Upper(argument) \notin {TRY, USD} THEN Null ELSE Some(Upper(argument))
ExchangeOf(argument) == Val(ConstructExchange(argument))
AcceptedExchanges ==
    {ExchangeOf(argument) :
        argument \in {a \in ExchangeArguments : ~IsNull(ConstructExchange(a))}}

\* The helpers called on their own.  Item codes: none, the empty one, and the
\* codes of one or two characters over CodeChars.
CodeChars == {"1", "2", "3", "4", "A", "a", "B", "0"}
ItemCodes ==
    {Null, Some(<<>>)} \cup {Some(<<c>>) : c \in CodeChars}
        \cup {Some(<<c, d>>) : c \in CodeChars, d \in CodeChars}

\* Company codes: the two lists as written, some of their codes in lower or
\* mixed case, and codes of neither list.
CompanyCodes ==
    XI_29K_COMPANIES \cup BANK_CODES
        \cup {<<"g", "a", "r", "f", "a">>, <<"I", "s", "f", "i", "n">>, <<"d", "o", "c", "o">>,
              <<"a", "k", "b", "n", "k">>, <<"T", "s", "k", "b">>,
              <<"T", "H", "Y", "A", "O">>, <<"t", "u", "p", "r", "s">>, <<"A", "N", "S", "G", "R">>}

\* Main sector names as the companies query gives them: none, empty, or a name.
MainSectors ==
    {Null, Some(<<>>),
     Some(<<"B", "a", "n", "k", "a", "c", SmallDotlessI, "l", SmallDotlessI, "k">>),
     Some(<<" ", "s", "i", "g", "o", "r", "t", "a", " ">>),
     Some(<<"S", CapitalDottedI, "G", "O", "R", "T", "A">>),
     Some(<<"M", "A", "L", CapitalDottedI, " ", "B", "A", "N", "K", "A", "C", "I", "L", "I", "K">>),
     Some(<<"F", "a", "k", "t", "o", "r", "i", "n", "g">>),
     Some(<<"b", "a", "n", "k", "a">>)}

\* The years of the labels split on their own.
LabelYears == {1999, 2009} \cup (StartYear..(StartYear + MaxYears - 1)) \cup {2100}

ClassifyCalls == {[fn |-> "_determine_statement_type", args |-> <<code>>] : code \in ItemCodes}
GroupCalls ==
    {[fn |-> "determine_financial_group", args |-> <<company_code, main_sector>>] :
        company_code \in CompanyCodes, main_sector \in MainSectors}
PeriodCalls ==
    {[fn |-> "period", args |-> <<year, QUARTERS[q]>>] : year \in LabelYears, q \in 1..Len(QUARTERS)}

\* ------------------------------------------------------------------- state

VARIABLES
    script,                  \* "full": financial_scraper_v2.main; "subset": financial_scraper_test_subset.main
    companies,               \* main: the rows of the companies query
    start_year,              \* fetch_financials: 2020 when main calls
    end_year,                \* fetch_financials: datetime.now().year when main calls
    financial_group_mapping, \* IsYatirimFinancialAPI.financial_group_mapping
    exchange,                \* IsYatirimFinancialAPI.exchange
    caller,                  \* "main": a run of main; "fetch", "upsert": that function called on its own
    pc,                      \* the position of the run
    idx,                     \* main: number of companies taken from the list
    success_count,           \* main
    failed_companies,        \* main: <<symbol, error>> pairs
    reported,                \* main: the success/failure counts have been logged
    visited,                 \* history: the symbols the loop body started on, in order
    financial_group,         \* main: the taxonomy code of the current company
    all_quarters,            \* fetch_financials
    chunk_start,             \* fetch_financials: loop variable, counted from 0
    attempt,                 \* _fetch_chunk: loop variable
    all_dataframes,          \* fetch_financials
    chunk_results,           \* history: how each chunk of this fetch ended
    nrequests,               \* history: requests issued for the chunk last requested
    last_request,            \* history: the chunk and the outcome of the last request
    fetch_exit,              \* history: "none", "running", "returned" or "raised"
    params,                  \* history: the parameters of the last request
    sleeps,                  \* history: the sleeps and requests of the chunk last requested, in order
    FINANCIAL_GROUPS,        \* IsYatirimFinancialAPI.FINANCIAL_GROUPS, shared by all clients
    resolved,                \* history: the last call of get_financial_group_for_ticker and its result
    df_wide,                 \* main
    df_long,                 \* main, upsert_financial_data
    transform_exit,          \* history: "none", "returned" or "raised": how transform_to_long_format ended
    store,                   \* financial_statements, as committed
    tx_store,                \* financial_statements as the open transaction sees it
    staging,                 \* the staging tables that exist in the database
    temp_table,              \* upsert_financial_data: the name it generated, 0 for none
    clock,                   \* the database clock, read by NOW() at transaction start
    before,                  \* history: store, staging and clock when the current call began
    upsert_exit,             \* history: how the current call of upsert_financial_data ended
    calls,                   \* history: calls of upsert_financial_data so far
    unit_call,               \* a helper called on its own: its name and arguments
    unit_result              \* what that call returned, Null before it has

inputVars == <<script, companies, start_year, end_year, financial_group_mapping, exchange,
               caller>>
loopVars == <<idx, success_count, failed_companies, reported, visited, financial_group>>
fetchVars == <<all_quarters, chunk_start, attempt, all_dataframes, chunk_results,
               nrequests, last_request, fetch_exit, params, sleeps>>
registryVars == <<FINANCIAL_GROUPS, resolved>>
frameVars == <<df_wide, df_long, transform_exit>>
dbVars == <<store, tx_store, staging, temp_table, clock, before, upsert_exit, calls>>
unitVars == <<unit_call, unit_result>>
vars == <<inputVars, pc, loopVars, fetchVars, frameVars, dbVars, registryVars, unitVars>>

\* The years a fetch may range over.
Years == StartYear..(StartYear + MaxYears - 1)

NoFrame == [ids |-> {}, cols |-> <<>>, rows |-> <<>>]
NoRequest == [chunk |-> 0, kind |-> "none"]
NoExit == [kind |-> "none", rows |-> 0, error |-> ""]
NoParams == RequestParams("", <<>>, "", <<>>)
NoCall == [ticker |-> "", group |-> ""]
NoUnit == [fn |-> "", args |-> <<>>]

OutcomeKind(outcome) ==
    IF outcome.transport THEN "transport_error"
    ELSE IF ~outcome.body.ok THEN "not_ok"
    ELSE IF outcome.body.value = <<>> THEN "empty" ELSE "data"

InitLocals ==
    /\ success_count = 0 /\ failed_companies = <<>>
    /\ reported = FALSE /\ visited = <<>>
    /\ chunk_start = 0 /\ attempt = 0
    /\ all_dataframes = <<>> /\ chunk_results = <<>> /\ nrequests = 0
    /\ last_request = NoRequest
    /\ params = NoParams /\ sleeps = <<>>
    /\ df_wide = NoFrame /\ df_long = <<>> /\ transform_exit = "none"
    /\ store = {} /\ tx_store = {} /\ staging = {} /\ temp_table = 0
    /\ clock = 0 /\ before = [store |-> {}, staging |-> {}, clock |-> 0]
    /\ upsert_exit = NoExit /\ calls = 0

\* A run of main, after its setup: the companies are read, the client is built.
\* financial_scraper_v2.main is at the head of its loop;
\* financial_scraper_test_subset.main is at its "if not companies" guard.
Init ==
    /\ script \in {"full", "subset"}
    /\ companies \in {CompanyRows(n) : n \in 0..MaxCompanies}
    /\ start_year = StartYear
    /\ end_year \in Years
    /\ financial_group_mapping = LoadedMapping
    /\ exchange = ExchangeOf(TRY)
    /\ FINANCIAL_GROUPS = GroupsAfterInit(SeededGroups, financial_group_mapping)
    /\ resolved = NoCall
    /\ caller = "main"
    /\ pc = IF script = "subset" THEN "start" ELSE "loop"
    /\ idx = 0 /\ financial_group = "" /\ all_quarters = <<>> /\ fetch_exit = "none"
    /\ InitLocals
    /\ unit_call = NoUnit /\ unit_result = Null

\* fetch_financials called on its own for one company, with any taxonomy code the
\* resolver gives and any year range, followed by the transform of its result.
InitFetch ==
    /\ script = "full"
    /\ companies = CompanyRows(1)
    /\ start_year \in Years
    /\ end_year \in Years
    /\ financial_group_mapping \in {EmptyMapping, LoadedMapping}
    /\ exchange \in AcceptedExchanges
    /\ resolved = [ticker |-> Symbols[1],
                   group  |-> get_financial_group_for_ticker(financial_group_mapping, Symbols[1])]
    /\ FINANCIAL_GROUPS =
           GroupsAfterFetchEntry(GroupsAfterInit(SeededGroups, financial_group_mapping),
                                 resolved.group, Symbols[1])
    /\ caller = "fetch"
    /\ pc = "fetch"
    /\ idx = 1
    /\ financial_group = get_financial_group_for_ticker(financial_group_mapping, Symbols[1])
    /\ all_quarters = _generate_quarters(start_year, end_year)
    /\ fetch_exit = "running"
    /\ InitLocals
    /\ unit_call = NoUnit /\ unit_result = Null

\* upsert_financial_data called on its own, on an empty store.
InitUpsert ==
    /\ script = "full"
    /\ companies = <<>>
    /\ start_year = StartYear
    /\ end_year = StartYear
    /\ financial_group_mapping = EmptyMapping
    /\ exchange = ExchangeOf(TRY)
    /\ FINANCIAL_GROUPS = SeededGroups
    /\ resolved = NoCall
    /\ caller = "upsert"
    /\ pc = "idle"
    /\ idx = 0 /\ financial_group = "" /\ all_quarters = <<>> /\ fetch_exit = "none"
    /\ InitLocals
    /\ unit_call = NoUnit /\ unit_result = Null

\* ------------------------------------------------------------ the main loop

Company == companies[idx]

\* Mutant of RecordFailure: main's except clause logs the error without
\* appending to failed_companies.
RecordFailureUnlisted(err) ==
    IF caller = "main"
    THEN /\ pc' = "loop"
         /\ UNCHANGED loopVars
    ELSE /\ pc' = IF caller = "upsert" THEN "idle" ELSE "stopped"
         /\ UNCHANGED loopVars


\* An exception leaves fetch_financials, transform_to_long_format or
\* upsert_financial_data.  In main's loop "except Exception" records the company
\* and the loop goes on; a function called on its own is over.
RecordFailure(err) ==
    IF caller = "main"
    THEN /\ failed_companies' = Append(failed_companies, <<Company.symbol, err>>)
         /\ pc' = "loop"
         /\ UNCHANGED <<idx, success_count, reported, visited, financial_group>>
    ELSE /\ pc' = IF caller = "upsert" THEN "idle" ELSE "stopped"
         /\ UNCHANGED loopVars

\* financial_scraper_test_subset.main returns before the loop when the query gave
\* no company.
MainStart ==
    /\ pc = "start"
    /\ pc' = IF companies = <<>> THEN "returned_early" ELSE "loop"
    /\ UNCHANGED <<unitVars, inputVars, registryVars, loopVars, fetchVars, frameVars, dbVars>>

\* The head of the loop body: the taxonomy code is looked up and
\* fetch_financials is entered (its quarters generated, its list empty).
NextCompany ==
    /\ pc = "loop"
    /\ idx < Len(companies)
    /\ idx' = idx + 1
    /\ visited' = Append(visited, companies[idx + 1].symbol)
    /\ financial_group' =
           get_financial_group_for_ticker(financial_group_mapping, companies[idx + 1].symbol)
    /\ all_quarters' = _generate_quarters(StartYear, end_year)
    /\ chunk_start' = 0
    /\ attempt' = 0
    /\ all_dataframes' = <<>>
    /\ chunk_results' = <<>>
    /\ nrequests' = 0
    /\ last_request' = NoRequest
    /\ params' = NoParams
    /\ sleeps' = <<>>
    /\ fetch_exit' = "running"
    /\ df_wide' = NoFrame
    /\ df_long' = <<>>
    /\ transform_exit' = "none"
    /\ upsert_exit' = NoExit
    /\ resolved' = [ticker |-> companies[idx + 1].symbol, group |-> financial_group']
    /\ FINANCIAL_GROUPS' =
           GroupsAfterFetchEntry(FINANCIAL_GROUPS, financial_group', companies[idx + 1].symbol)
    /\ pc' = "fetch"
    /\ UNCHANGED <<unitVars, inputVars, success_count, failed_companies, reported,
                   store, tx_store, staging, temp_table, clock, before, calls>>

\* What _fetch_chunk does after a RequestException at this attempt: sleep and go
\* round the loop again, leave the exhausted loop with None, or re-raise.
AfterTransportError(a) ==
    IF MayRetry(a)
    THEN IF a + 1 < MAX_RETRIES THEN "retry" ELSE "return_none"
    ELSE "raise"

\* Mutant of ChunkEnds: the chunk loop does not advance.
ChunkEndsInPlace(result, frames) ==
    /\ chunk_results' = Append(chunk_results, result)
    /\ all_dataframes' = frames
    /\ chunk_start' = chunk_start
    /\ attempt' = 0

\* The chunk at chunk_start is over with this result; fetch_financials moves on.
ChunkEnds(result, frames) ==
    /\ chunk_results' = Append(chunk_results, result)
    /\ all_dataframes' = frames
    /\ chunk_start' = chunk_start + ChunkSize
    /\ attempt' = 0

\* One request of _fetch_chunk for the chunk at chunk_start, and what follows
\* from its outcome up to the next request or the end of the chunk loop.
Request ==
    /\ pc = "fetch"
    /\ chunk_start < Len(all_quarters)
    /\ \E outcome \in (IF caller \in {"main", "client"}
                      THEN MainOutcomes(Company.symbol, ChunkQuarters(all_quarters, chunk_start))
                      ELSE Outcomes) :
        LET quarters == ChunkQuarters(all_quarters, chunk_start)
            df_chunk == ChunkFrame(outcome.body, quarters)
            slept == (IF attempt = 0 THEN <<>> ELSE sleeps) \o DelayBefore(attempt)
                         \o <<"request">>
        IN /\ nrequests' = IF attempt = 0 THEN 1 ELSE nrequests + 1
           /\ last_request' = [chunk |-> chunk_start, kind |-> OutcomeKind(outcome)]
           /\ params' = RequestParams(Company.symbol, exchange, financial_group, quarters)
           /\ sleeps' =
                  IF Retryable(outcome)
                  THEN IF AfterTransportError(attempt) = "retry"
                       THEN slept \o <<"retry_delay">> ELSE slept
                  ELSE slept \o <<"chunk_delay">>
           /\ IF Retryable(outcome)
              THEN CASE AfterTransportError(attempt) = "retry" ->
                          /\ attempt' = attempt + 1
                          /\ UNCHANGED <<chunk_start, all_dataframes, chunk_results>>
                     [] AfterTransportError(attempt) = "return_none" ->
                          ChunkEnds("nodata", all_dataframes)
                     [] OTHER ->
                          \* raised by _fetch_chunk, caught by fetch_financials' except
                          ChunkEnds("failed", all_dataframes)
              ELSE IF ~IsNull(df_chunk) /\ Val(df_chunk).rows # <<>>
                   THEN ChunkEnds("data", Append(all_dataframes, Val(df_chunk)))
                   ELSE ChunkEnds("nodata", all_dataframes)
    /\ UNCHANGED <<unitVars, inputVars, registryVars, pc, loopVars, all_quarters, fetch_exit, frameVars, dbVars>>

\* Mutant of NoFrames: the error is raised unless several chunks gave a frame.
FewFrames(dataframes) == Len(dataframes) <= 1

\* not all_dataframes
NoFrames(dataframes) == dataframes = <<>>

\* The end of fetch_financials: the no-data error, or the merged frame.
FetchFinish ==
    /\ pc = "fetch"
    /\ chunk_start >= Len(all_quarters)
    /\ IF NoFrames(all_dataframes)
       THEN /\ fetch_exit' = "raised"
            /\ RecordFailure(NoDataError(Company.symbol, financial_group))
            /\ UNCHANGED df_wide
       ELSE /\ fetch_exit' = "returned"
            /\ df_wide' = _merge_chunks(all_dataframes)
            /\ pc' = "transform"
            /\ UNCHANGED loopVars
    /\ UNCHANGED <<unitVars, inputVars, registryVars, all_quarters, chunk_start, attempt, all_dataframes,
                   chunk_results, nrequests, last_request, params, sleeps, df_long, transform_exit, dbVars>>

Transform ==
    /\ pc = "transform"
    /\ LET t == transform_to_long_format(df_wide, Company.id, financial_group)
       IN IF t.raised
          THEN /\ RecordFailure(OtherError("KeyError"))
               /\ transform_exit' = "raised"
               /\ UNCHANGED df_long
          ELSE /\ df_long' = t.rows
               /\ transform_exit' = "returned"
               /\ pc' = IF caller = "main" THEN "upsert" ELSE "stopped"
               /\ UNCHANGED loopVars
    /\ UNCHANGED <<unitVars, inputVars, registryVars, fetchVars, df_wide, dbVars>>

\* After the loop: the final statistics.  financial_scraper_v2.main divides by
\* total_companies while formatting the success line.
Report ==
    /\ pc = "loop"
    /\ idx = Len(companies)
    /\ IF script = "full" /\ Len(companies) = 0
       THEN pc' = "crashed" /\ UNCHANGED reported
       ELSE pc' = "done" /\ reported' = TRUE
    /\ UNCHANGED <<unitVars, inputVars, registryVars, idx, success_count, failed_companies, visited,
                   financial_group, fetchVars, frameVars, dbVars>>

\* ----------------------------------------------------- upsert_financial_data

\* The call returns n to its caller.
Returns(n) ==
    /\ upsert_exit' = [kind |-> "returned", rows |-> n, error |-> ""]
    /\ IF caller = "main"
       THEN /\ success_count' = success_count + 1
            /\ pc' = "loop"
            /\ UNCHANGED <<idx, failed_companies, reported, visited, financial_group>>
       ELSE pc' = "idle" /\ UNCHANGED loopVars

\* The call raises err to its caller.
Raises(err) ==
    /\ upsert_exit' = [kind |-> "raised", rows |-> 0, error |-> err.kind]
    /\ RecordFailure(err)

\* Entry: the empty batch returns 0; otherwise the staging table gets its name.
UpsertEnter ==
    /\ pc = "upsert"
    /\ calls' = calls + 1
    /\ before' = [store |-> store, staging |-> staging, clock |-> clock]
    /\ IF IsEmptyFrame(df_long)
       THEN temp_table' = 0 /\ Returns(0)
       ELSE /\ temp_table' = calls + 1
            /\ upsert_exit' = [kind |-> "running", rows |-> 0, error |-> ""]
            /\ pc' = "to_sql"
            /\ UNCHANGED loopVars
    /\ UNCHANGED <<unitVars, inputVars, registryVars, fetchVars, frameVars, store, tx_store, staging, clock>>

\* df_long.to_sql(temp_table, ...) succeeds: the staging table exists, filled.
ToSql ==
    /\ pc = "to_sql"
    /\ staging' = staging \cup {temp_table}
    /\ pc' = "begin"
    /\ UNCHANGED <<unitVars, inputVars, registryVars, loopVars, fetchVars, frameVars,
                   store, tx_store, temp_table, clock, before, upsert_exit, calls>>

\* to_sql fails.  It creates and fills the table in one transaction of its own,
\* which the failure rolls back, so no table is left.  (A pandas release that
\* commits the CREATE TABLE before the inserts would leave the table behind.)
ToSqlFails ==
    /\ pc = "to_sql"
    /\ Raises(OtherError("staging_failed"))
    /\ UNCHANGED <<unitVars, inputVars, registryVars, fetchVars, frameVars, store, tx_store, staging,
                   temp_table, clock, before, calls>>

\* engine.begin() and the upsert statement, which succeeds.
ExecStatement ==
    /\ pc = "begin"
    /\ clock' = clock + 1
    /\ LET res == ExecUpsert(store, df_long, clock + 1)
       IN res.ok /\ tx_store' = res.store
    /\ pc' = "drop"
    /\ UNCHANGED <<unitVars, inputVars, registryVars, loopVars, fetchVars, frameVars,
                   store, staging, temp_table, before, upsert_exit, calls>>

\* The upsert statement fails, of itself or by a database error; the exception
\* leaves the with block, which rolls the transaction back.
ExecStatementFails ==
    /\ pc = "begin"
    /\ clock' = clock + 1
    /\ \E injected \in BOOLEAN :
           LET res == ExecUpsert(store, df_long, clock + 1)
           IN /\ injected \/ ~res.ok
              /\ store' = AfterRollback(store, res.store)
              /\ tx_store' = store'
    /\ Raises(OtherError("statement_failed"))
    /\ UNCHANGED <<unitVars, inputVars, registryVars, fetchVars, frameVars, staging, temp_table, before, calls>>

\* DROP TABLE IF EXISTS inside the transaction, then the commit at the end of
\* the with block; the row count is returned.
Commit ==
    /\ pc = "drop"
    /\ store' = tx_store
    /\ staging' = staging \ {temp_table}
    /\ Returns(Len(df_long))
    /\ UNCHANGED <<unitVars, inputVars, registryVars, fetchVars, frameVars, tx_store, temp_table, clock,
                   before, calls>>

\* The drop or the commit fails: the transaction is rolled back.
CommitFails ==
    /\ pc = "drop"
    /\ store' = AfterRollback(store, tx_store)
    /\ tx_store' = store'
    /\ Raises(OtherError("commit_failed"))
    /\ UNCHANGED <<unitVars, inputVars, registryVars, fetchVars, frameVars, staging, temp_table, clock,
                   before, calls>>

\* upsert_financial_data called on its own with one of the batches.
DirectCall ==
    /\ pc = "idle"
    /\ calls < MaxCalls
    /\ df_long' \in Batches
    /\ upsert_exit' = NoExit
    /\ pc' = "upsert"
    /\ UNCHANGED <<unitVars, inputVars, registryVars, loopVars, fetchVars, df_wide, transform_exit,
                   store, tx_store, staging, temp_table, clock, before, calls>>

\* ------------------------------------------------------------- the client

\* IsYatirimFinancialAPI(financial_group_mapping=...): the mapping is stored and
\* its codes are registered.  The registry is the class's, so it is carried over
\* from the clients built before.
Construct ==
    /\ pc = "client"
    /\ \E argument \in MappingArguments :
           /\ financial_group_mapping' = OrEmpty(argument)
           /\ FINANCIAL_GROUPS' =
                  IF ~IsNull(argument) /\ Val(argument) # EmptyMapping
                  THEN GroupsAfterInit(FINANCIAL_GROUPS, Val(argument))
                  ELSE FINANCIAL_GROUPS
    /\ resolved' = NoCall
    /\ UNCHANGED <<unitVars, script, companies, start_year, end_year, exchange, caller, pc,
                   loopVars, fetchVars, frameVars, dbVars>>

\* get_financial_group_for_ticker(ticker)
Resolve ==
    /\ pc = "client"
    /\ \E ticker \in Tickers :
           resolved' = [ticker |-> ticker,
                        group  |-> get_financial_group_for_ticker(financial_group_mapping, ticker)]
    /\ UNCHANGED <<unitVars, inputVars, pc, loopVars, fetchVars, frameVars, dbVars, FINANCIAL_GROUPS>>

\* fetch_financials(symbol, financial_group, start_year, end_year) up to its
\* chunk loop: an unknown code is registered, the quarters are generated.
FetchEnter ==
    /\ pc = "client"
    /\ \E i \in 1..Len(companies), code \in Codes, year \in Years :
           /\ idx' = i
           /\ financial_group' = code
           /\ start_year' = StartYear
           /\ end_year' = year
           /\ FINANCIAL_GROUPS' =
                  GroupsAfterFetchEntry(FINANCIAL_GROUPS, code, companies[i].symbol)
           /\ all_quarters' = _generate_quarters(StartYear, year)
    /\ chunk_start' = 0
    /\ attempt' = 0
    /\ all_dataframes' = <<>>
    /\ chunk_results' = <<>>
    /\ nrequests' = 0
    /\ last_request' = NoRequest
    /\ params' = NoParams
    /\ sleeps' = <<>>
    /\ fetch_exit' = "running"
    /\ df_wide' = NoFrame
    /\ resolved' = NoCall
    /\ pc' = "fetch"
    /\ UNCHANGED <<unitVars, script, companies, financial_group_mapping, exchange, caller,
                   success_count, failed_companies, reported, visited, df_long, transform_exit, dbVars>>

\* fetch_financials has returned its table or raised, and the caller is done
\* with either: the call's arguments and locals are gone, the client is free again.
FetchLeave ==
    /\ caller = "client"
    /\ pc \in {"transform", "stopped"}
    /\ pc' = "client"
    /\ idx' = 0 /\ financial_group' = "" /\ end_year' = StartYear
    /\ all_quarters' = <<>> /\ chunk_start' = 0 /\ attempt' = 0
    /\ all_dataframes' = <<>> /\ chunk_results' = <<>> /\ nrequests' = 0
    /\ last_request' = NoRequest /\ params' = NoParams /\ sleeps' = <<>>
    /\ fetch_exit' = "none" /\ df_wide' = NoFrame
    /\ UNCHANGED <<unitVars, script, companies, start_year, financial_group_mapping, exchange, caller,
                   success_count, failed_companies, reported, visited, df_long, transform_exit, dbVars,
                   registryVars>>

\* The class is loaded and a client built without a mapping.
InitClient ==
    /\ script = "full"
    /\ companies = CompanyRows(MaxCompanies)
    /\ start_year = StartYear
    /\ end_year = StartYear
    /\ financial_group_mapping = OrEmpty(Null)
    /\ exchange = ExchangeOf(TRY)
    /\ FINANCIAL_GROUPS = SeededGroups
    /\ resolved = NoCall
    /\ caller = "client"
    /\ pc = "client"
    /\ idx = 0 /\ financial_group = "" /\ all_quarters = <<>> /\ fetch_exit = "none"
    /\ InitLocals
    /\ unit_call = NoUnit /\ unit_result = Null

\* ------------------------------------------------- helpers called on their own

\* _determine_statement_type(item_code)
Classify ==
    /\ pc = "unit"
    /\ unit_call.fn = "_determine_statement_type"
    /\ IsNull(unit_result)
    /\ unit_result' = Some(_determine_statement_type(unit_call.args[1]))
    /\ UNCHANGED <<inputVars, pc, loopVars, fetchVars, frameVars, dbVars, registryVars, unit_call>>

\* CompanyFinancialGroupMapper.determine_financial_group(company_code, main_sector)
DetermineGroup ==
    /\ pc = "unit"
    /\ unit_call.fn = "determine_financial_group"
    /\ IsNull(unit_result)
    /\ unit_result' = Some(determine_financial_group(unit_call.args[1], unit_call.args[2]))
    /\ UNCHANGED <<inputVars, pc, loopVars, fetchVars, frameVars, dbVars, registryVars, unit_call>>

\* _fetch_chunk renames the value column of (year, month) to its label.
RenameColumn ==
    /\ pc = "unit"
    /\ unit_call.fn = "period"
    /\ IsNull(unit_result)
    /\ unit_result' = Some([label |-> PeriodLabel(unit_call.args[1], unit_call.args[2])])
    /\ UNCHANGED <<inputVars, pc, loopVars, fetchVars, frameVars, dbVars, registryVars, unit_call>>

\* transform_to_long_format splits the label into year and quarter.
SplitLabel ==
    /\ pc = "unit"
    /\ unit_call.fn = "period"
    /\ ~IsNull(unit_result)
    /\ DOMAIN Val(unit_result) = {"label"}
    /\ unit_result' = Some([label   |-> Val(unit_result).label,
                            year    |-> ParsePeriod(Val(unit_result).label).year,
                            quarter |-> ParsePeriod(Val(unit_result).label).quarter])
    /\ UNCHANGED <<inputVars, pc, loopVars, fetchVars, frameVars, dbVars, registryVars, unit_call>>

\* One of the static helpers is about to be called with one of its arguments.
InitUnits ==
    /\ script = "full"
    /\ companies = <<>>
    /\ start_year = StartYear
    /\ end_year = StartYear
    /\ financial_group_mapping = EmptyMapping
    /\ exchange = ExchangeOf(TRY)
    /\ FINANCIAL_GROUPS = SeededGroups
    /\ resolved = NoCall
    /\ caller = "unit"
    /\ pc = "unit"
    /\ idx = 0 /\ financial_group = "" /\ all_quarters = <<>> /\ fetch_exit = "none"
    /\ InitLocals
    /\ \/ unit_call \in ClassifyCalls
       \/ unit_call \in GroupCalls
       \/ unit_call \in PeriodCalls
    /\ unit_result = Null

\* ----------------------------------------------------------- specifications

UpsertSteps ==
    \/ UpsertEnter
    \/ ToSql
    \/ ToSqlFails
    \/ ExecStatement
    \/ ExecStatementFails
    \/ Commit
    \/ CommitFails

Next ==
    \/ MainStart
    \/ NextCompany
    \/ Request
    \/ FetchFinish
    \/ Transform
    \/ UpsertSteps
    \/ Report

\* A run of main.
Spec == Init /\ [][Next]_vars

\* fetch_financials and the transform of what it returns.
SpecFetch == InitFetch /\ [][Request \/ FetchFinish \/ Transform]_vars

\* Clients built and used one after the other: lookups and fetches.
SpecClient ==
    InitClient /\ [][Construct \/ Resolve \/ FetchEnter \/ Request \/ FetchFinish \/ FetchLeave]_vars

\* Calls of upsert_financial_data, one after the other.
SpecUpsert == InitUpsert /\ [][DirectCall \/ UpsertSteps]_vars

\* The static helpers, each called once on one argument.
SpecUnits == InitUnits /\ [][Classify \/ DetermineGroup \/ RenameColumn \/ SplitLabel]_vars

\* ------------------------------------------------------------------ claims

Last(s) == s[Len(s)]
Terminal == {"done", "crashed", "returned_early"}
SymbolsOf(rows) == [i \in 1..Len(rows) |-> rows[i].symbol]

\* C1: for any list of companies (none included) and any pattern of per-company
\* failures, the loop visits the companies in order, a company whose fetch,
\* transform or upsert raised is the last entry of the failure list when the loop
\* takes over again, the run never stops short of its end, and when it is over
\* every company has been visited and the success/failure counts are reported.
C1_RunReachesReport ==
    /\ visited = SubSeq(SymbolsOf(companies), 1, idx)
    /\ (pc = "loop" /\ (fetch_exit = "raised" \/ upsert_exit.kind = "raised"))
           => failed_companies # <<>> /\ Last(failed_companies)[1] = Company.symbol
    /\ pc \notin Terminal => ENABLED Next
    /\ pc \in Terminal => reported /\ visited = SymbolsOf(companies)

\* C2: the durable store never holds two rows with the same
\* (companyId, year, quarter, itemCode), whatever batches were upserted.
C2_OneRowPerKey ==
    \A r1 \in store : \A r2 \in store : Key(r1) = Key(r2) => r1 = r2

\* C2 witness: a second batch has been committed over a key a first one created.
C2_Witness ==
    /\ upsert_exit.kind = "returned"
    /\ calls >= 2
    /\ \E s \in store : s.updatedAt > s.createdAt

\* C3: after an upsert returned, each key of its batch has exactly one row in the
\* store; the row has the batch's value, item names, statement type and taxonomy
\* code; if the key was there before, the row keeps its createdAt and its
\* updatedAt is strictly later than before.
C3_SecondUpsertWins ==
    (upsert_exit.kind = "returned") =>
        \A i \in 1..Len(df_long) :
            LET r == df_long[i]
                now == {s \in store : Key(s) = Key(r)}
                old == {s \in before.store : Key(s) = Key(r)}
            IN /\ Cardinality(now) = 1
               /\ \A s \in now :
                    /\ s.value = r.value
                    /\ s.itemNameTR = r.itemNameTR
                    /\ s.itemNameEN = r.itemNameEN
                    /\ s.statementType = r.statementType
                    /\ s.financialGroup = r.financialGroup
                    /\ \A o \in old : s.createdAt = o.createdAt /\ s.updatedAt > o.updatedAt
                    /\ old = {} => s.createdAt = s.updatedAt

\* C3 witness: an upsert returned whose batch gave a key that was in the store a
\* different value, different names and a different taxonomy code.
C3_Witness ==
    /\ upsert_exit.kind = "returned"
    /\ \E i \in 1..Len(df_long) : \E o \in before.store :
          /\ Key(o) = Key(df_long[i])
          /\ o.value # df_long[i].value
          /\ o.itemNameTR # df_long[i].itemNameTR
          /\ o.financialGroup # df_long[i].financialGroup

\* Every row of the batch is in the store as this call's transaction wrote it.
BatchWritten ==
    \A i \in 1..Len(df_long) :
        \E s \in store : /\ Key(s) = Key(df_long[i])
                         /\ s.value = df_long[i].value
                         /\ s.itemNameTR = df_long[i].itemNameTR
                         /\ s.updatedAt = clock

\* C4: during and after a call of upsert_financial_data the durable store is
\* either as it was when the call began or holds the whole batch; after a call
\* that raised (staging, statement or commit failure) it is as it was.
C4_BatchIsAtomic ==
    (upsert_exit.kind # "none") =>
        /\ store = before.store \/ (BatchWritten /\ upsert_exit.kind = "returned")
        /\ upsert_exit.kind = "raised" => store = before.store

\* C4 witness: the upsert statement failed on a batch of several rows, whose
\* first rows it could have written, over a store that held rows.
C4_Witness ==
    /\ upsert_exit.error = "statement_failed"
    /\ before.store # {}
    /\ \E i \in 1..Len(df_long) : \E j \in 1..Len(df_long) :
          i < j /\ i > 1 /\ Key(df_long[i]) = Key(df_long[j])

\* C5: when upsert_financial_data has returned or raised, the staging table it
\* created no longer exists.
C5_StagingCleanedUp ==
    (upsert_exit.kind \in {"returned", "raised"} /\ temp_table # 0)
        => temp_table \notin staging

\* C6: a call with an empty batch returns 0 without raising, generates and
\* creates no staging table, opens no transaction and leaves the store as it was.
C6_EmptyBatchIsNoOp ==
    (upsert_exit.kind # "none" /\ df_long = <<>>) =>
        /\ upsert_exit = [kind |-> "returned", rows |-> 0, error |-> ""]
        /\ temp_table = 0
        /\ staging = before.staging
        /\ store = before.store
        /\ clock = before.clock

\* C6 witness: an empty batch was upserted into a store that held rows, with a
\* staging table left over from an earlier call.
C6_Witness ==
    /\ upsert_exit.kind = "returned"
    /\ df_long = <<>>
    /\ store # {}
    /\ staging # {}

\* ------------------------------------------------------- the fetch, observed

\* The number of chunks fetch_financials cuts the quarters of the range into.
NumChunks == (Len(all_quarters) + ChunkSize - 1) \div ChunkSize

\* The chunks of the current fetch that ended with the given result.
ChunksEnded(result) == {i \in 1..Len(chunk_results) : chunk_results[i] = result}

\* The column labels of the periods asked for in the i-th chunk.
LabelsOfChunk(i) ==
    {PeriodLabel(q[1], q[2]) : q \in Range(ChunkQuarters(all_quarters, (i - 1) * ChunkSize))}

\* The labels under which some frame a chunk gave holds a non-null value.
LabelsWithValue ==
    {c \in UNION {Range(all_dataframes[k].cols) : k \in 1..Len(all_dataframes)} :
        \E k \in 1..Len(all_dataframes) : \E i \in 1..Len(all_dataframes[k].rows) :
            /\ c \in DOMAIN all_dataframes[k].rows[i].cells
            /\ ~IsNull(all_dataframes[k].rows[i].cells[c])}

FetchOver == fetch_exit \in {"returned", "raised"}

C8_CoversEveryQuarter ==
    fetch_exit = "returned" =>
        /\ Len(df_wide.cols) = 4 * (end_year - start_year + 1)
        /\ Range(df_wide.cols) = UNION {LabelsOfChunk(i) : i \in 1..NumChunks}

\* C8, amended: a returned table has distinct value columns, each labelled
\* year/quarter-month for a period of a chunk that gave data, and among them
\* every period for which some chunk gave a non-null value.  With one chunk
\* giving data the table is that chunk's table; with several it has exactly the
\* periods holding a value.  Periods of chunks that gave no data or failed, and
\* after a merge periods null for every item, have no column, so the table has
\* at most, not always, 4 x (end_year - start_year + 1) value columns.
C8_CoversDataPeriods ==
    fetch_exit = "returned" =>
        /\ Cardinality(Range(df_wide.cols)) = Len(df_wide.cols)
        /\ Range(df_wide.cols) \subseteq UNION {LabelsOfChunk(i) : i \in ChunksEnded("data")}
        /\ LabelsWithValue \subseteq Range(df_wide.cols)
        /\ Len(all_dataframes) = 1 => df_wide = all_dataframes[1]
        /\ Len(all_dataframes) > 1 => Range(df_wide.cols) = LabelsWithValue
        /\ Len(df_wide.cols) <= 4 * (end_year - start_year + 1)

\* Two chunks gave data and the merged table lacks a period of the range.
C8_Witness ==
    /\ fetch_exit = "returned"
    /\ Len(all_dataframes) = 2
    /\ Len(df_wide.cols) < 4 * (end_year - start_year + 1)

C10_NoDataNotRetried ==
    last_request.kind \in {"not_ok", "empty"} =>
        LET i == last_request.chunk \div ChunkSize + 1
        IN /\ chunk_start = last_request.chunk + ChunkSize
           /\ attempt = 0
           /\ Len(chunk_results) = i
           /\ chunk_results[i] = "nodata"
           /\ Len(all_dataframes) = Cardinality(ChunksEnded("data"))
           /\ \A k \in 1..Len(all_dataframes) :
                  Range(all_dataframes[k].cols) \cap LabelsOfChunk(i) = {}
           /\ Range(df_wide.cols) \cap LabelsOfChunk(i) = {}

\* The second chunk got one response with "ok" false; the first chunk's table came back.
C10_Witness ==
    /\ last_request.kind = "not_ok"
    /\ nrequests = 1
    /\ chunk_results = <<"data", "nodata">>
    /\ fetch_exit = "returned"

\* The positions of an event in the sleeps and requests of the current chunk.
Positions(event) == {i \in 1..Len(sleeps) : sleeps[i] = event}

\* C11: in every chunk fetch the randomized delay happens once, as the first
\* thing, right before the first request; every later request of the chunk is
\* right after a fixed retry delay, which in turn follows a failed request; no
\* request goes out without one of the two delays right before it.
C11_DelayBeforeEachRequest ==
    /\ Cardinality(Positions("request")) = nrequests
    /\ sleeps # <<>> => Positions("random_delay") = {1} /\ 2 \in Positions("request")
    /\ \A i \in Positions("request") :
          /\ i > 1
          /\ sleeps[i - 1] = (IF i = 2 THEN "random_delay" ELSE "retry_delay")
    /\ \A i \in Positions("retry_delay") :
          /\ sleeps[i - 1] = "request"
          /\ i < Len(sleeps) => sleeps[i + 1] = "request"
    /\ Cardinality(Positions("retry_delay")) \in {nrequests - 1, nrequests}

\* A chunk answered with data at its third request, after two retry delays.
C11_Witness ==
    /\ last_request.kind = "data"
    /\ nrequests = MAX_RETRIES
    /\ sleeps = <<"random_delay", "request", "retry_delay", "request",
                  "retry_delay", "request", "chunk_delay">>

\* Months since year 0 up to the end of a (year, quarter-month) period.
Chronological(q) == 12 * q[1] + q[2]

CeilDiv(a, b) == (a + b - 1) \div b

\* C12: for start_year <= end_year the periods enumerated are those of the
\* range, in strictly increasing chronological order, 4 x (end_year -
\* start_year + 1) in number; the chunks are consecutive slices of at most 4
\* whose concatenation is the list; _fetch_chunk is called for the chunks in
\* turn, ceil(periods / 4) times in all.
C12_PeriodsAndChunks ==
    start_year <= end_year =>
        /\ Len(all_quarters) = 4 * (end_year - start_year + 1)
        /\ \A i \in 1..Len(all_quarters) :
              /\ all_quarters[i][1] \in start_year..end_year
              /\ all_quarters[i][2] \in {3, 6, 9, 12}
        /\ \A i, j \in 1..Len(all_quarters) :
              i < j => Chronological(all_quarters[i]) < Chronological(all_quarters[j])
        /\ LET n == CeilDiv(Len(all_quarters), 4)
               chunk(i) == ChunkQuarters(all_quarters, 4 * (i - 1))
           IN /\ Flatten([i \in 1..n |-> chunk(i)]) = all_quarters
              /\ \A i \in 1..n : Len(chunk(i)) \in 1..4
              /\ Len(chunk_results) <= n
              /\ chunk_start = 4 * Len(chunk_results)
              /\ params # NoParams =>
                    Len(params.year) = Len(chunk(last_request.chunk \div 4 + 1))
              /\ FetchOver => Len(chunk_results) = n

\* A fetch over two years is over: eight periods, two calls of _fetch_chunk.
C12_Witness ==
    /\ FetchOver
    /\ end_year = start_year + 1
    /\ Len(all_quarters) = 8
    /\ Len(chunk_results) = 2

\* A step in which a request is issued and answered.
RequestIssued == last_request'.kind # "none" /\ <<nrequests, last_request>>' # <<nrequests, last_request>>

\* The companies whose loop body is over.
Finished == success_count + Len(failed_companies)

\* C13: requests go out one at a time, in order.  A request belongs to the one
\* company the loop is at, whose predecessors are all finished and which is not
\* yet past its fetch; it is for the first chunk of that company not yet over,
\* so a chunk is requested only after every attempt of the chunks before it has
\* ended, chunks go in chronological order, and a request for the chunk of the
\* request before is a retry after a transport failure.  A company is taken up
\* only when the one before is finished.
C13_OneRequestAtATime ==
    [][/\ RequestIssued =>
              /\ pc = "fetch" /\ pc' = "fetch"
              /\ idx' = idx /\ idx \in 1..Len(companies)
              /\ Last(visited) = Company.symbol
              /\ Finished = idx - 1 /\ Finished' = Finished
              /\ upsert_exit = NoExit /\ df_long = <<>>
              /\ params'.companyCode = Company.symbol
              /\ last_request'.chunk = ChunkSize * Len(chunk_results)
              /\ last_request.kind # "none" =>
                    \/ /\ last_request'.chunk = last_request.chunk
                       /\ last_request.kind = "transport_error"
                       /\ nrequests' = nrequests + 1
                    \/ /\ last_request'.chunk = last_request.chunk + ChunkSize
                       /\ Len(chunk_results) = last_request.chunk \div ChunkSize + 1
                       /\ nrequests' = 1
       /\ idx' # idx =>
              /\ idx' = idx + 1
              /\ pc = "loop" /\ Finished = idx
              /\ last_request'.kind = "none"
      ]_vars

\* The second company's second chunk is being retried.
C13_Witness ==
    /\ pc = "fetch"
    /\ idx = 2
    /\ chunk_start = ChunkSize
    /\ last_request = [chunk |-> ChunkSize, kind |-> "transport_error"]
    /\ nrequests = 2

\* C14: the N-th period of a chunk goes out as yearN and periodN, and the
\* valueN column of the response comes back under the label "year/month" of that
\* same period, for N up to the chunk's length, at most 4; no label is given
\* to two value columns of one company's chunk tables.
C14_ValueColumnsLabelled ==
    /\ params # NoParams =>
          LET q == ChunkQuarters(all_quarters, last_request.chunk)
          IN /\ Len(q) \in 1..4
             /\ Len(params.year) = Len(q) /\ Len(params.period) = Len(q)
             /\ \A n \in 1..Len(q) :
                   params.year[n] = Str(q[n][1]) /\ params.period[n] = Str(q[n][2])
    /\ last_request.kind = "data" =>
          LET df == Last(all_dataframes)
          IN \E body \in DataBodies :
                /\ Len(df.rows) = Len(body.value)
                /\ Len(df.cols) = Len(params.year)
                /\ \A n \in 1..Len(df.cols) :
                      /\ df.cols[n] = params.year[n] \o <<"/">> \o params.period[n]
                      /\ \A i \in 1..Len(df.rows) :
                            df.rows[i].cells[df.cols[n]] = body.value[i].values[n]
    /\ \A a, b \in 1..Len(all_dataframes) :
          /\ Cardinality(Range(all_dataframes[a].cols)) = Len(all_dataframes[a].cols)
          /\ a # b => Range(all_dataframes[a].cols) \cap Range(all_dataframes[b].cols) = {}

\* The second chunk's response has just been relabelled, next to the first chunk's table.
C14_Witness ==
    /\ last_request = [chunk |-> ChunkSize, kind |-> "data"]
    /\ Len(all_dataframes) = 2
    /\ params.year = <<Str(StartYear + 1), Str(StartYear + 1), Str(StartYear + 1), Str(StartYear + 1)>>
    /\ Last(all_dataframes).cols[4] = Str(StartYear + 1) \o <<"/", "1", "2">>

\* C15: fetch_financials called with a taxonomy code the registry does not hold
\* raises nothing before its requests: the code is in the registry from the
\* entry on, under a placeholder entry, every chunk is requested, and every
\* request carries that very code as financialGroup.
C15_UnknownCodeIsUsed ==
    (caller = "client" /\ fetch_exit # "none") =>
        /\ financial_group \in DOMAIN FINANCIAL_GROUPS
        /\ FINANCIAL_GROUPS[financial_group].code = financial_group
        /\ financial_group \notin DOMAIN SeededGroups =>
              /\ FINANCIAL_GROUPS[financial_group].name = <<"Dynamic: ", financial_group>>
              /\ Len(FINANCIAL_GROUPS[financial_group].applicable_to) = 1
        /\ (pc = "fetch" /\ Len(chunk_results) < NumChunks) => ENABLED Request
        /\ params # NoParams =>
              /\ params.financialGroup = financial_group
              /\ params.companyCode = Company.symbol
        /\ FetchOver => Len(chunk_results) = NumChunks /\ NumChunks >= 1 /\ params # NoParams

\* The second chunk is requested with a code that only this call made known.
C15_Witness ==
    /\ caller = "client"
    /\ financial_group = "TFRS"
    /\ FINANCIAL_GROUPS["TFRS"].description = "Dynamically discovered during runtime"
    /\ FINANCIAL_GROUPS["TFRS"].applicable_to = <<Company.symbol>>
    /\ last_request.chunk = ChunkSize
    /\ params.financialGroup = "TFRS"

\* C16: whatever clients are built, with or without a mapping, and whatever is
\* fetched, the registry only grows: no step removes a code or changes the
\* entry of a code already there, seeded or not, and every code's entry carries
\* that code.
C16_RegistryAppendOnly ==
    /\ [](/\ DOMAIN SeededGroups \subseteq DOMAIN FINANCIAL_GROUPS
          /\ \A c \in DOMAIN FINANCIAL_GROUPS : FINANCIAL_GROUPS[c].code = c
          /\ \A c \in DOMAIN SeededGroups : FINANCIAL_GROUPS[c] = SeededGroups[c])
    /\ [][/\ DOMAIN FINANCIAL_GROUPS \subseteq DOMAIN FINANCIAL_GROUPS'
          /\ \A c \in DOMAIN FINANCIAL_GROUPS : FINANCIAL_GROUPS'[c] = FINANCIAL_GROUPS[c]
         ]_vars

\* A code a mapping made known is fetched, and a code a fetch for the first
\* company made known is fetched again for the second: both entries are as they were.
C16_Witness ==
    /\ caller = "client"
    /\ pc = "fetch"
    /\ idx = 2
    /\ financial_group = "TFRS"
    /\ FINANCIAL_GROUPS["TFRS"].applicable_to = <<Symbols[1]>>
    /\ "SIGORTA" \in DOMAIN FINANCIAL_GROUPS
    /\ FINANCIAL_GROUPS["SIGORTA"].description = "Dynamically added from DB mapping"

\* C17: get_financial_group_for_ticker gives the mapping's code for a ticker
\* the mapping holds and XI_29 for any other, so XI_29 for every ticker when
\* the mapping is absent, empty or failed to load; it can always be called, and
\* the call leaves the mapping and the registry as they were.
C17_ResolverDefaults ==
    /\ [](caller = "client" =>
            /\ pc = "client" => ENABLED Resolve
            /\ resolved # NoCall =>
                  /\ resolved.ticker \in DOMAIN financial_group_mapping =>
                        resolved.group = financial_group_mapping[resolved.ticker]
                  /\ resolved.ticker \notin DOMAIN financial_group_mapping =>
                        resolved.group = "XI_29"
                  /\ financial_group_mapping = EmptyMapping => resolved.group = "XI_29")
    /\ [][(caller = "client" /\ resolved' # NoCall /\ resolved' # resolved) =>
              /\ financial_group_mapping' = financial_group_mapping
              /\ FINANCIAL_GROUPS' = FINANCIAL_GROUPS
              /\ pc' = pc
         ]_vars

\* A ticker that an earlier client's mapping held is looked up on a client
\* built without a mapping.
C17_Witness ==
    /\ caller = "client"
    /\ financial_group_mapping = EmptyMapping
    /\ "SIGORTA" \in DOMAIN FINANCIAL_GROUPS
    /\ resolved = [ticker |-> "GARAN", group |-> "XI_29"]

\* ------------------------------------------------------- the merge, observed

\* The chunk tables handed to _merge_chunks and the table it gave back.
Merged == fetch_exit = "returned"

\* The output row carries the input row's item: it agrees with it on every id
\* column the output has, and an id column the output lacks is null in the input row.
SameItem(out, in) ==
    /\ \A c \in DOMAIN out.key : out.key[c] = in.key[c]
    /\ \A c \in DOMAIN in.key \ DOMAIN out.key : IsNull(in.key[c])

\* The id columns and the period columns of a table that are null in every row.
NullIdColumns(T) == {c \in T.ids : \A i \in 1..Len(T.rows) : IsNull(T.rows[i].key[c])}
NullColumns(T) == {c \in Range(T.cols) : \A i \in 1..Len(T.rows) : IsNull(T.rows[i].cells[c])}

\* C18: _merge_chunks drops no item.  Every row of every chunk table has a row
\* of the merged table carrying its item and its cells; a merged row has null
\* in the periods of a chunk table that does not hold its item; and the merged
\* table holds no item that no chunk table held.  (An id column null for every
\* item is not a column of the merged table; the rows stay.)
C18_MergeKeepsItems ==
    Merged =>
        /\ \A k \in 1..Len(all_dataframes) : \A i \in 1..Len(all_dataframes[k].rows) :
              \E j \in 1..Len(df_wide.rows) :
                  /\ SameItem(df_wide.rows[j], all_dataframes[k].rows[i])
                  /\ \A c \in Range(all_dataframes[k].cols) \cap Range(df_wide.cols) :
                        df_wide.rows[j].cells[c] = all_dataframes[k].rows[i].cells[c]
        /\ \A j \in 1..Len(df_wide.rows) : \A k \in 1..Len(all_dataframes) :
              \/ \E i \in 1..Len(all_dataframes[k].rows) :
                     SameItem(df_wide.rows[j], all_dataframes[k].rows[i])
              \/ \A c \in Range(all_dataframes[k].cols) \cap Range(df_wide.cols) :
                     IsNull(df_wide.rows[j].cells[c])
        /\ \A j \in 1..Len(df_wide.rows) :
              \E k \in 1..Len(all_dataframes) : \E i \in 1..Len(all_dataframes[k].rows) :
                  SameItem(df_wide.rows[j], all_dataframes[k].rows[i])

\* An item only the second chunk holds is in the merged table, null in a
\* period of the first chunk.
C18_Witness ==
    /\ Merged
    /\ Len(all_dataframes) = 2
    /\ Len(all_dataframes[1].rows) = 1
    /\ \E j \in 1..Len(df_wide.rows) :
          /\ df_wide.rows[j].key["itemCode"] = Some(Code3B)
          /\ \E c \in Range(all_dataframes[1].cols) \cap Range(df_wide.cols) :
                IsNull(df_wide.rows[j].cells[c])
          /\ \E c \in Range(all_dataframes[2].cols) \cap Range(df_wide.cols) :
                ~IsNull(df_wide.rows[j].cells[c])

\* C19, as stated: for one chunk table or several, the table _merge_chunks
\* returns has no column that is null in all of its rows.
C19_NoNullColumn ==
    Merged => NullColumns(df_wide) = {} /\ NullIdColumns(df_wide) = {}

\* C19, amended: for two chunk tables or more, the table _merge_chunks returns
\* has no column that is null in all of its rows, and lacks exactly the columns
\* of the chunk tables that are null for every item.  A single chunk table is
\* returned with all its columns, those null in every row included.
C19_NoNullColumnAfterMerge ==
    Merged =>
        /\ Len(all_dataframes) >= 2 =>
              /\ NullColumns(df_wide) = {} /\ NullIdColumns(df_wide) = {}
              /\ Range(df_wide.cols) =
                     UNION {Range(all_dataframes[k].cols) : k \in 1..Len(all_dataframes)}
                         \ NullColumns(MergeFrom(all_dataframes[1], Tail(all_dataframes)))
              /\ df_wide.ids =
                     IdCols \ NullIdColumns(MergeFrom(all_dataframes[1], Tail(all_dataframes)))
        /\ Len(all_dataframes) = 1 =>
              /\ df_wide.cols = all_dataframes[1].cols
              /\ df_wide.ids = all_dataframes[1].ids
              /\ NullColumns(df_wide) = NullColumns(all_dataframes[1])
              /\ NullIdColumns(df_wide) = NullIdColumns(all_dataframes[1])

\* Two chunk tables were merged and a period null for every item is gone,
\* while a period with a value is there.
C19_Witness ==
    /\ Merged
    /\ Len(all_dataframes) = 2
    /\ NullColumns(all_dataframes[1]) \cap Range(all_dataframes[1].cols) # {}
    /\ NullColumns(all_dataframes[1]) \cap Range(df_wide.cols) = {}
    /\ all_dataframes[1].cols[1] \in Range(df_wide.cols)

\* C20: _merge_chunks on a list of one chunk table returns that table: the
\* same rows, the same columns in the same order, the same cells.
C20_SingleChunkUnchanged ==
    (Merged /\ Len(all_dataframes) = 1) =>
        /\ df_wide.ids = all_dataframes[1].ids
        /\ df_wide.cols = all_dataframes[1].cols
        /\ Len(df_wide.rows) = Len(all_dataframes[1].rows)
        /\ \A i \in 1..Len(df_wide.rows) :
              /\ df_wide.rows[i].key = all_dataframes[1].rows[i].key
              /\ \A c \in Range(all_dataframes[1].cols) :
                    df_wide.rows[i].cells[c] = all_dataframes[1].rows[i].cells[c]

\* A single chunk table with periods null for every item came back as it was.
C20_Witness ==
    /\ Merged
    /\ Len(all_dataframes) = 1
    /\ Len(df_wide.cols) = 4
    /\ Cardinality(NullColumns(df_wide)) >= 2

\* ---------------------------------------------------------------- C21

\* The cells of the wide table that hold a value: <<row number, period label>>.
NonNullCells(T) ==
    UNION {{<<i, T.cols[k]>> : i \in {j \in 1..Len(T.rows) : ~IsNull(T.rows[j].cells[T.cols[k]])}}
            : k \in 1..Len(T.cols)}

\* The long row carries the item, the period and the value of the cell.
RowOfCell(row, T, cell) ==
    /\ row.itemCode = T.rows[cell[1]].key["itemCode"]
    /\ row.itemNameTR = T.rows[cell[1]].key["itemDescTr"]
    /\ row.itemNameEN = T.rows[cell[1]].key["itemDescEng"]
    /\ PeriodLabel(row.year, 3 * row.quarter) = cell[2]
    /\ row.value = T.rows[cell[1]].cells[cell[2]]

\* C21: when transform_to_long_format returns, its rows and the non-null period
\* cells of the wide table correspond one to one: there are as many rows as
\* cells, every row carries the item, period and value of a cell, and every
\* cell is carried by as many rows as there are cells with its content.
C21_RowsAreTheNonNullCells ==
    transform_exit = "returned" =>
        LET cells == NonNullCells(df_wide)
        IN /\ Len(df_long) = Cardinality(cells)
           /\ \A n \in 1..Len(df_long) : \E cell \in cells : RowOfCell(df_long[n], df_wide, cell)
           /\ \A cell \in cells :
                  Cardinality({n \in 1..Len(df_long) : RowOfCell(df_long[n], df_wide, cell)})
                      = Cardinality({other \in cells :
                            /\ df_wide.rows[other[1]].key = df_wide.rows[cell[1]].key
                            /\ other[2] = cell[2]
                            /\ df_wide.rows[other[1]].cells[other[2]]
                                   = df_wide.rows[cell[1]].cells[cell[2]]})

\* A merged table of two items, with empty cells, was transformed into three rows or more.
C21_Witness ==
    /\ transform_exit = "returned"
    /\ Len(df_wide.rows) >= 2
    /\ Len(df_long) >= 3
    /\ \E i \in 1..Len(df_wide.rows), k \in 1..Len(df_wide.cols) :
           IsNull(df_wide.rows[i].cells[df_wide.cols[k]])

\* ---------------------------------------------------------------- C22

\* C22: every row transform_to_long_format returns has a value and a fully
\* populated natural key: a company id, a year, a quarter in 1..4 and an item code.
C22_RowsFullyKeyed ==
    transform_exit = "returned" =>
        \A n \in 1..Len(df_long) :
            /\ ~IsNull(df_long[n].value)
            /\ df_long[n].companyId = Company.id
            /\ df_long[n].year \in start_year..end_year
            /\ df_long[n].quarter \in 1..4
            /\ ~IsNull(df_long[n].itemCode)

\* ---------------------------------------------------------------- C23

\* The label of (year, month) has been generated and split again.
LabelSplit ==
    /\ unit_call.fn = "period"
    /\ ~IsNull(unit_result)
    /\ "quarter" \in DOMAIN Val(unit_result)

\* C23: a label "year/month" with month in {3, 6, 9, 12} is split into the same
\* year and the quarter month / 3, which lies in 1..4: generating the label of
\* a (year, quarter-month) pair and splitting it gives the pair's year and
\* quarter back.
C23_LabelRoundTrip ==
    LabelSplit =>
        LET year == unit_call.args[1]
            month == unit_call.args[2]
            parsed == Val(unit_result)
        IN /\ month \in {3, 6, 9, 12}
           /\ parsed.label = Str(year) \o <<"/">> \o Str(month)
           /\ parsed.year = year
           /\ 3 * parsed.quarter = month
           /\ parsed.quarter \in 1..4

\* The label of December 2021 was split into 2021 and quarter 4.
C23_Witness ==
    /\ LabelSplit
    /\ unit_call.args = <<2021, 12>>
    /\ Val(unit_result).label = <<"2", "0", "2", "1", "/", "1", "2">>
    /\ Val(unit_result).year = 2021
    /\ Val(unit_result).quarter = 4

\* ---------------------------------------------------------------- C24

\* _determine_statement_type has returned.
Classified == unit_call.fn = "_determine_statement_type" /\ ~IsNull(unit_result)

\* C24: the statement type depends on the first character of the item code
\* only: "1" and "A" give the assets sheet, "2" the liabilities sheet, "3" the
\* income statement, "4" the cash flow; any other first character, the empty
\* code and no code give the income statement.  The result is always one of
\* these four.
C24_ClassifiedByFirstChar ==
    Classified =>
        LET item_code == unit_call.args[1]
            type == Val(unit_result)
        IN /\ type \in {"BALANCE_SHEET_ASSETS", "BALANCE_SHEET_LIABILITIES",
                        "INCOME_STATEMENT", "CASH_FLOW"}
           /\ (item_code = Null \/ item_code = Some(<<>>)) => type = "INCOME_STATEMENT"
           /\ (item_code # Null /\ item_code # Some(<<>>)) =>
                  /\ type = "BALANCE_SHEET_ASSETS" <=> Val(item_code)[1] \in {"1", "A"}
                  /\ type = "BALANCE_SHEET_LIABILITIES" <=> Val(item_code)[1] = "2"
                  /\ type = "CASH_FLOW" <=> Val(item_code)[1] = "4"
                  /\ type = "INCOME_STATEMENT" <=> Val(item_code)[1] \notin {"1", "A", "2", "4"}

\* The code "A4" was classified as an assets item.
C24_Witness ==
    /\ Classified
    /\ unit_call.args[1] = Some(<<"A", "4">>)
    /\ unit_result = Some("BALANCE_SHEET_ASSETS")

\* ---------------------------------------------------------------- C25

\* determine_financial_group has returned.
GroupDetermined == unit_call.fn = "determine_financial_group" /\ ~IsNull(unit_result)

\* The codes test_xi_29k_companies expects in XI_29K.
test_companies == {<<"G", "A", "R", "F", "A">>, <<"I", "S", "F", "I", "N">>}

\* The main sectors of MainSectors that name banking or insurance.
BankingOrInsurance ==
    {Some(<<"B", "a", "n", "k", "a", "c", SmallDotlessI, "l", SmallDotlessI, "k">>),
     Some(<<" ", "s", "i", "g", "o", "r", "t", "a", " ">>),
     Some(<<"S", CapitalDottedI, "G", "O", "R", "T", "A">>),
     Some(<<"M", "A", "L", CapitalDottedI, " ", "B", "A", "N", "K", "A", "C", "I", "L", "I", "K">>)}

\* C25: determine_financial_group decides on the upper-cased code in a fixed
\* order: a code of the special-financial list gives XI_29K (GARFA and ISFIN
\* among them), else a code of the bank list gives UFRS, else a main sector
\* naming banking or insurance gives UFRS, else XI_29; for a code of either list
\* the sector makes no difference.
C25_GroupPrecedence ==
    GroupDetermined =>
        LET code == Upper(unit_call.args[1])
            main_sector == unit_call.args[2]
            group == Val(unit_result)
        IN /\ code \in test_companies => group = "XI_29K"
           /\ code \in XI_29K_COMPANIES => group = "XI_29K"
           /\ (code \notin XI_29K_COMPANIES /\ code \in BANK_CODES) => group = "UFRS"
           /\ (code \notin XI_29K_COMPANIES /\ code \notin BANK_CODES) =>
                  group = IF main_sector \in BankingOrInsurance THEN "UFRS" ELSE "XI_29"

\* "garfa" with a banking main sector was put in XI_29K.
C25_Witness ==
    /\ GroupDetermined
    /\ unit_call.args[1] = <<"g", "a", "r", "f", "a">>
    /\ unit_call.args[2] \in BankingOrInsurance
    /\ unit_result = Some("XI_29K")

\* ---------------------------------------------------------------- C26

\* The run is inside the loop body, on company number idx.
InBody == pc \notin {"start", "returned_early", "loop", "done", "crashed"}

\* C26: at every point of main's loop success_count + len(failed_companies) is
\* the number of companies whose body is over; the failed ones are distinct
\* companies among these, so each finished company is counted once, in one of
\* the two; after the loop the sum is the number of companies.
C26_CountsPartitionFinished ==
    LET over == IF InBody THEN idx - 1 ELSE idx
    IN /\ success_count + Len(failed_companies) = over
       /\ success_count >= 0
       /\ \A i, j \in 1..Len(failed_companies) :
              failed_companies[i][1] = failed_companies[j][1] => i = j
       /\ \A i \in 1..Len(failed_companies) :
              \E k \in 1..over : companies[k].symbol = failed_companies[i][1]
       /\ pc \in {"done", "crashed"} => success_count + Len(failed_companies) = Len(companies)

\* The run has reported after one company failed and one succeeded.
C26_Witness ==
    /\ pc = "done"
    /\ Len(companies) = 2
    /\ success_count = 1
    /\ Len(failed_companies) = 1

\* ---------------------------------------------------------------- C27

\* The companies of this run that have a row in financial_statements.  The
\* table is empty when the run starts, so these rows were written by the run.
CompaniesWithRows ==
    {k \in 1..Len(companies) : \E s \in store : s.companyId = companies[k].id}

\* C27: only companies with at least one row written in this run are counted
\* in success_count: the count never exceeds the number of companies that have
\* a row in the table.
C27_SuccessMeansRows == success_count <= Cardinality(CompaniesWithRows)

\* ---------------------------------------------------------------- C28

\* C28: the currency on every long row is the currency the client asked the
\* endpoint for in the "exchange" parameter, for every client the constructor
\* accepts.
C28_CurrencyIsExchange ==
    transform_exit = "returned" =>
        \A n \in 1..Len(df_long) : df_long[n].currency = params.exchange

\* ---------------------------------------------------------------- C29

\* C29: the table fetch_financials returns still has its three id columns,
\* whatever the chunks held, and the transform of it does not fail.
C29_IdColumnsSurvive ==
    Merged => (df_wide.ids = IdCols /\ transform_exit # "raised")

\* ---------------------------------------------------------------- C30

\* C30: the batch transform_to_long_format hands to the upsert has no two rows
\* with the same (companyId, year, quarter, itemCode).
C30_BatchKeysDistinct ==
    transform_exit = "returned" =>
        \A i, j \in 1..Len(df_long) : Key(df_long[i]) = Key(df_long[j]) => i = j

====
